---- MODULE Spec2Model ----
(***************************************************************************)
(* Salat tracker (src/script.js): the time arithmetic over "HH:MM"         *)
(* strings, the classification of the current time against the prayer-time *)
(* table, and the per-day completion / missed records.                     *)
(*                                                                         *)
(* A JavaScript string is modelled as the sequence of its characters (each *)
(* a one-character string), compared the way JavaScript compares strings:  *)
(* lexicographically by character code.                                    *)
(***************************************************************************)
EXTENDS Integers, Sequences, FiniteSets, TLC

VARIABLES
    pc,               \* position of init(): "start", "fetching", "reset", "running"
    day,              \* the wall clock's calendar day (days since 1 Jan 2024)
    now,              \* the wall clock's minute of the day, 0..1439
    fetchToday,       \* the day fetchPrayerTimes captured in `today` before awaiting
    prayerTimes,      \* the global prayerTimes: a sequence of [k, v] in insertion order
    completedPrayers, \* the global completedPrayers: DayKey -> set of prayer names
    missedPrayers,    \* the global missedPrayers: DayKey -> (prayer -> [date, time])
    memoryStorage,    \* window.memoryStorage
    cards,            \* the prayer cards displayPrayerTimes rendered, in order
    checked,          \* the rendered checkboxes' state: prayer -> BOOLEAN
    toggles,          \* the number of checkbox clicks so far
    lastOp,           \* the operation that produced this state, with its inputs
    calc              \* harness of the pure functions: inputs and result

vars == <<pc, day, now, fetchToday, prayerTimes, completedPrayers, missedPrayers,
          memoryStorage, cards, checked, toggles, lastOp, calc>>

-----------------------------------------------------------------------------
(* JavaScript strings and numbers *)

\* The value of a missing property.
undefined == <<"undefined">>

\* UTF-16 code of the characters time strings are made of.
CharCode(c) ==
    CASE c = "-" -> 45
      [] c = "0" -> 48 [] c = "1" -> 49 [] c = "2" -> 50 [] c = "3" -> 51
      [] c = "4" -> 52 [] c = "5" -> 53 [] c = "6" -> 54 [] c = "7" -> 55
      [] c = "8" -> 56 [] c = "9" -> 57
      [] c = ":" -> 58

DigitChar(d) ==
    CASE d = 0 -> "0" [] d = 1 -> "1" [] d = 2 -> "2" [] d = 3 -> "3"
      [] d = 4 -> "4" [] d = 5 -> "5" [] d = 6 -> "6" [] d = 7 -> "7"
      [] d = 8 -> "8" [] d = 9 -> "9"

RECURSIVE NatString(_)
NatString(n) ==
    IF n < 10 THEN <<DigitChar(n)>>
    ELSE NatString(n \div 10) \o <<DigitChar(n % 10)>>

\* String(n) of an integer n.
String(n) == IF n < 0 THEN <<"-">> \o NatString(-n) ELSE NatString(n)

\* s.padStart(2, '0')
padStart2(s) ==
    IF Len(s) >= 2 THEN s
    ELSE IF Len(s) = 1 THEN <<"0">> \o s
    ELSE <<"0", "0">>

RECURSIVE DigitsValue(_)
DigitsValue(s) ==
    IF Len(s) = 0 THEN 0
    ELSE 10 * DigitsValue(SubSeq(s, 1, Len(s) - 1)) + (CharCode(s[Len(s)]) - 48)

\* Number(s) of a decimal string with an optional sign.
Number(s) ==
    IF Len(s) > 0 /\ s[1] = "-" THEN 0 - DigitsValue(Tail(s)) ELSE DigitsValue(s)

\* Whether Number(s) is a number and not NaN: s is a decimal numeral with an
\* optional sign, or empty (Number('') is 0); undefined is not.
isNumeral(s) ==
    /\ s # undefined
    /\ LET digits == IF Len(s) > 0 /\ s[1] = "-" THEN Tail(s) ELSE s
       IN  /\ (Len(s) > 0 /\ s[1] = "-") => Len(digits) > 0
           /\ \A i \in 1..Len(digits) :
                  digits[i] \in {"0", "1", "2", "3", "4", "5", "6", "7", "8", "9"}

\* s.split(sep) for a one-character separator.
RECURSIVE split(_, _)
split(s, sep) ==
    IF \A i \in 1..Len(s) : s[i] # sep THEN <<s>>
    ELSE LET i == CHOOSE j \in 1..Len(s) :
                      s[j] = sep /\ \A k \in 1..(j - 1) : s[k] # sep
         IN  <<SubSeq(s, 1, i - 1)>> \o split(SubSeq(s, i + 1, Len(s)), sep)

\* a < b on two strings: lexicographic by character code, a proper prefix first.
RECURSIVE StrLess(_, _)
StrLess(a, b) ==
    IF Len(b) = 0 THEN FALSE
    ELSE IF Len(a) = 0 THEN TRUE
    ELSE IF CharCode(a[1]) # CharCode(b[1]) THEN CharCode(a[1]) < CharCode(b[1])
    ELSE StrLess(Tail(a), Tail(b))

\* The relational operators; a comparison with undefined is false.
jsLT(a, b) == a # undefined /\ b # undefined /\ StrLess(a, b)
jsGT(a, b) == jsLT(b, a)
jsLE(a, b) == a # undefined /\ b # undefined /\ ~StrLess(b, a)
jsGE(a, b) == jsLE(b, a)

\* a % b of JavaScript: the remainder takes the sign of the dividend.
jsRem(a, b) == IF a >= 0 THEN a % b ELSE 0 - ((0 - a) % b)

-----------------------------------------------------------------------------
(* TimeMath *)

isTimeInRange_Exclusive(current, start, end) ==
    jsGE(current, start) /\ jsLT(current, end)

isTimeInRange(current, start, end) ==
    jsGE(current, start) /\ jsLE(current, end)

addMinutes(time, minutes) ==
    LET parts        == split(time, ":")
        h            == Number(parts[1])
        m            == Number(parts[2])
        totalMinutes == h * 60 + m + minutes
        newH         == jsRem(totalMinutes \div 60, 24)
        newM         == jsRem(totalMinutes, 60)
    IN  padStart2(String(newH)) \o <<":">> \o padStart2(String(newM))

subtractMinutes(time, minutes) == addMinutes(time, 0 - minutes)

\* `${h12}:${minutes} ${ampm}` of a 24-hour "HH:MM".
formatTime(time24) ==
    LET parts == split(time24, ":")
        h     == Number(parts[1])
        ampm  == IF h >= 12 THEN <<"P", "M">> ELSE <<"A", "M">>
        h12   == IF jsRem(h, 12) = 0 THEN 12 ELSE jsRem(h, 12)
    IN  String(h12) \o <<":">> \o parts[2] \o <<" ">> \o ampm

\* `${hours}h ${minutes}m`, or `${minutes}m` under an hour.
getTimeDifference(from, to) ==
    LET f       == split(from, ":")
        t       == split(to, ":")
        diff    == (Number(t[1]) * 60 + Number(t[2]))
                       - (Number(f[1]) * 60 + Number(f[2]))
        diffMinutes == IF diff < 0 THEN diff + 24 * 60 ELSE diff
        hours   == diffMinutes \div 60
        minutes == jsRem(diffMinutes, 60)
    IN  IF hours > 0
        THEN String(hours) \o <<"h", " ">> \o String(minutes) \o <<"m">>
        ELSE String(minutes) \o <<"m">>

-----------------------------------------------------------------------------
(* Inputs: well-formed times *)

MinutesPerDay == 1440

\* The "HH:MM" string of minute-of-day n, as the clock readers of the source
\* build it: `${String(hours).padStart(2,'0')}:${String(minutes).padStart(2,'0')}`.
currentTimeOf(n) ==
    padStart2(String(n \div 60)) \o <<":">> \o padStart2(String(n % 60))


-----------------------------------------------------------------------------
(* Date: a calendar day is the number of days since 1 January 2024, which   *)
(* was a Monday.                                                            *)

isLeapYear(y) == y % 4 = 0 /\ (y % 100 # 0 \/ y % 400 = 0)

\* Days of month index m0 (0 = January) of year y.
daysInMonth(y, m0) ==
    IF m0 = 1 THEN (IF isLeapYear(y) THEN 29 ELSE 28)
    ELSE IF m0 \in {3, 5, 8, 10} THEN 30
    ELSE 31

RECURSIVE daysBeforeYear(_)
daysBeforeYear(y) ==
    IF y <= 2024 THEN 0
    ELSE daysBeforeYear(y - 1) + (IF isLeapYear(y - 1) THEN 366 ELSE 365)

RECURSIVE daysBeforeMonth(_, _)
daysBeforeMonth(y, m0) ==
    IF m0 <= 0 THEN 0 ELSE daysBeforeMonth(y, m0 - 1) + daysInMonth(y, m0 - 1)

\* new Date(year, monthIndex, dayOfMonth): a month index past December and a
\* day of the month outside the month carry over.
newDate(year, monthIndex, dayOfMonth) ==
    LET y  == year + (monthIndex \div 12)
        m0 == monthIndex % 12
    IN  daysBeforeYear(y) + daysBeforeMonth(y, m0) + dayOfMonth - 1

getFullYear(n) ==
    CHOOSE y \in 2024..2030 : daysBeforeYear(y) <= n /\ n < daysBeforeYear(y + 1)

getMonth(n) ==
    LET y == getFullYear(n)
    IN  CHOOSE m0 \in 0..11 :
            /\ daysBeforeYear(y) + daysBeforeMonth(y, m0) <= n
            /\ n < daysBeforeYear(y) + daysBeforeMonth(y, m0 + 1)

getDate(n) ==
    LET y == getFullYear(n)
    IN  n - daysBeforeYear(y) - daysBeforeMonth(y, getMonth(n)) + 1

\* Sunday is 0, Friday is 5.
getDay(n) == (n + 1) % 7

\* The fields toDateString() prints: weekday, month, day of the month, year.
toDateString(n) == <<getDay(n), getMonth(n), getDate(n), getFullYear(n)>>

\* getTodayKey(): `${getDate()}-${getMonth() + 1}-${getFullYear()}` of day n.
keyOfDay(n) ==
    String(getDate(n)) \o <<"-">> \o String(getMonth(n) + 1) \o <<"-">>
        \o String(getFullYear(n))

\* The keys of the days from 1 December 2025 to 1 February 2026, computed once.
dayKeys == [n \in newDate(2025, 11, 1)..newDate(2026, 1, 1) |-> keyOfDay(n)]

\* getTodayKey()
getTodayKey == dayKeys[day]

\* The current "HH:MM", as every handler reads it from new Date().
currentTime == currentTimeOf(now)

-----------------------------------------------------------------------------
(* Objects: a function from the property names that are present *)

emptyObject == [x \in {} |-> x]

Put(obj, k, v) == [x \in (DOMAIN obj) \cup {k} |-> IF x = k THEN v ELSE obj[x]]

Delete(obj, k) == [x \in (DOMAIN obj) \ {k} |-> obj[x]]

-----------------------------------------------------------------------------
(* The prayer-time table: the value of the global prayerTimes, passed to    *)
(* the functions that read it.                                              *)

\* Object.keys(table)
tableKeys(table) == [i \in 1..Len(table) |-> table[i].k]

\* table[name]
timeAt(table, name) ==
    IF \E i \in 1..Len(table) : table[i].k = name
    THEN table[CHOOSE i \in 1..Len(table) : table[i].k = name].v
    ELSE undefined

\* array.indexOf(x): zero-based, -1 when x is not an element.
indexOf(array, x) ==
    IF \E i \in 1..Len(array) : array[i] = x
    THEN (CHOOSE i \in 1..Len(array) :
              array[i] = x /\ \A j \in 1..(i - 1) : array[j] # x) - 1
    ELSE 0 - 1

\* The six timings of a table, in the order fetchPrayerTimes and
\* useDefaultPrayerTimes write them.
tableOf(fajr, sunrise, dhuhr, asr, maghrib, isha) ==
    << [k |-> "Fajr",    v |-> fajr],
       [k |-> "Sunrise", v |-> sunrise],
       [k |-> "Dhuhr",   v |-> dhuhr],
       [k |-> "Asr",     v |-> asr],
       [k |-> "Maghrib", v |-> maghrib],
       [k |-> "Isha",    v |-> isha] >>

\* if (today.getDay() === 5) prayerTimes.Jummah = prayerTimes.Dhuhr
withJummah(table, today) ==
    IF getDay(today) = 5
    THEN Append(table, [k |-> "Jummah", v |-> timeAt(table, "Dhuhr")])
    ELSE table

\* The table useDefaultPrayerTimes installs.
defaultTimes ==
    tableOf(<<"0", "5", ":", "0", "0">>, <<"0", "6", ":", "1", "5">>,
            <<"1", "2", ":", "1", "5">>, <<"1", "5", ":", "4", "5">>,
            <<"1", "8", ":", "0", "0">>, <<"1", "9", ":", "3", "0">>)

\* The list every handler walks: Jummah takes Dhuhr's slot on a Friday.
prayersOf(isFriday) ==
    IF isFriday THEN <<"Fajr", "Jummah", "Asr", "Maghrib", "Isha">>
    ELSE <<"Fajr", "Dhuhr", "Asr", "Maghrib", "Isha">>

todayPrayers == prayersOf(getDay(day) = 5)

\* table[prayer === 'Jummah' ? 'Dhuhr' : prayer]
startTime(table, prayer) ==
    timeAt(table, IF prayer = "Jummah" THEN "Dhuhr" ELSE prayer)

getEndTime_NoAlias(table, prayer) ==
    LET prayers == tableKeys(table)
        index   == indexOf(prayers, prayer)
    IN  IF prayer = "Fajr" THEN timeAt(table, "Sunrise")
        ELSE IF index < Len(prayers) - 1 THEN timeAt(table, prayers[index + 2])
        ELSE <<"2", "3", ":", "5", "9">>

\* prayers[index + 1] of the zero-based index is element index + 2 here.
getEndTime(table, prayer) ==
    LET prayers == tableKeys(table)
        index   == indexOf(prayers, IF prayer = "Jummah" THEN "Dhuhr" ELSE prayer)
    IN  IF prayer = "Fajr" THEN timeAt(table, "Sunrise")
        ELSE IF index < Len(prayers) - 1 THEN timeAt(table, prayers[index + 2])
        ELSE <<"2", "3", ":", "5", "9">>

isInForbiddenTime(table, current) ==
    LET sunrise    == addMinutes(timeAt(table, "Fajr"), 90)
        sunriseEnd == timeAt(table, "Sunrise")
        zenith     == subtractMinutes(timeAt(table, "Dhuhr"), 10)
        zenithEnd  == timeAt(table, "Dhuhr")
        sunset     == subtractMinutes(timeAt(table, "Maghrib"), 15)
        sunsetEnd  == timeAt(table, "Maghrib")
    IN  \/ isTimeInRange(current, sunrise, sunriseEnd)
        \/ isTimeInRange(current, zenith, zenithEnd)
        \/ isTimeInRange(current, sunset, sunsetEnd)

\* The value of nextPrayer when the loop of updateNextPrayer finds nothing:
\* prayer names are atoms here, and null is one no prayer has.
null == "null"

RECURSIVE firstAfter_NotStrict(_, _, _)
firstAfter_NotStrict(table, current, prayers) ==
    IF prayers = <<>> THEN null
    ELSE IF jsLE(current, startTime(table, Head(prayers))) THEN Head(prayers)
    ELSE firstAfter_NotStrict(table, current, Tail(prayers))

\* The loop of updateNextPrayer: the first prayer with currentTime < prayerTime.
RECURSIVE firstAfter(_, _, _)
firstAfter(table, current, prayers) ==
    IF prayers = <<>> THEN null
    ELSE IF jsLT(current, startTime(table, Head(prayers))) THEN Head(prayers)
    ELSE firstAfter(table, current, Tail(prayers))

\* updateNextPrayer: the values its text is made of. The text of tomorrow's
\* Fajr carries no time difference.
updateNextPrayer(table, isFriday, current) ==
    LET nextPrayer == firstAfter(table, current, prayersOf(isFriday))
    IN  IF nextPrayer = null
        THEN [nextPrayer |-> "Fajr", tomorrow |-> TRUE, timeDiff |-> undefined,
              at |-> formatTime(timeAt(table, "Fajr"))]
        ELSE [nextPrayer |-> nextPrayer, tomorrow |-> FALSE,
              timeDiff |-> getTimeDifference(current, startTime(table, nextPrayer)),
              at |-> formatTime(startTime(table, nextPrayer))]

\* updatePrayerStatus: the banner, and the rendered cards of today's list
\* that end up with the class active and with the class forbidden.
updatePrayerStatus(table, isFriday, current, rendered) ==
    LET isForbidden == isInForbiddenTime(table, current)
        prayers     == prayersOf(isFriday)
        withCard    == {prayers[i] : i \in 1..Len(prayers)}
                           \cap {rendered[i] : i \in 1..Len(rendered)}
        inRange(p)  == isTimeInRange(current, startTime(table, p), getEndTime(table, p))
    IN  [banner    |-> isForbidden,
         active    |-> {p \in withCard : inRange(p) /\ ~isForbidden},
         forbidden |-> {p \in withCard : isForbidden /\ inRange(p)}]

-----------------------------------------------------------------------------
(* CompletionTracker: the two records *)

\* completedPrayers[key] && completedPrayers[key][prayer]
isCompleted(completed, key, prayer) ==
    key \in DOMAIN completed /\ prayer \in completed[key]

\* missedPrayers[key] && missedPrayers[key][prayer]
isMissed(missed, key, prayer) ==
    key \in DOMAIN missed /\ prayer \in DOMAIN missed[key]

\* missedPrayers[todayKey][prayer] = {date: todayKey, time: ...}, the day's
\* bucket created when it is not there.
recordMissed(missed, table, prayer) ==
    LET bucket == IF getTodayKey \in DOMAIN missed THEN missed[getTodayKey]
                  ELSE emptyObject
    IN  Put(missed, getTodayKey,
            Put(bucket, prayer,
                [date |-> getTodayKey, time |-> startTime(table, prayer)]))

clearMissed_DropBucket(missed, prayer) ==
    IF isMissed(missed, getTodayKey, prayer) THEN Delete(missed, getTodayKey)
    ELSE missed

clearMissed_Keep(missed, prayer) == missed

\* togglePrayer, checked: the pair's missed entry is deleted, and the day's
\* bucket with it when that leaves it empty.
clearMissed(missed, prayer) ==
    IF isMissed(missed, getTodayKey, prayer)
    THEN LET bucket == Delete(missed[getTodayKey], prayer)
         IN  IF DOMAIN bucket = {} THEN Delete(missed, getTodayKey)
             ELSE Put(missed, getTodayKey, bucket)
    ELSE missed

toggleCompleted_KeepBucket(completed, prayer, isChecked) ==
    LET bucket == IF getTodayKey \in DOMAIN completed THEN completed[getTodayKey]
                  ELSE {}
    IN  IF isChecked THEN Put(completed, getTodayKey, bucket \cup {prayer})
        ELSE Put(completed, getTodayKey, bucket \ {prayer})

\* togglePrayer's effect on completedPrayers.
toggleCompleted(completed, prayer, isChecked) ==
    LET bucket == IF getTodayKey \in DOMAIN completed THEN completed[getTodayKey]
                  ELSE {}
    IN  IF isChecked THEN Put(completed, getTodayKey, bucket \cup {prayer})
        ELSE IF bucket \ {prayer} = {} THEN Delete(completed, getTodayKey)
        ELSE Put(completed, getTodayKey, bucket \ {prayer})

\* togglePrayer's effect on missedPrayers.
toggleMissed(missed, table, prayer, isChecked) ==
    IF isChecked THEN clearMissed(missed, prayer)
    ELSE IF jsGT(currentTime, getEndTime(table, prayer))
    THEN recordMissed(missed, table, prayer)
    ELSE missed

missedStep_BucketGuard(missed, table, prayer) ==
    IF /\ jsGT(currentTime, getEndTime(table, prayer))
       /\ ~isCompleted(completedPrayers, getTodayKey, prayer)
       /\ getTodayKey \notin DOMAIN missed
    THEN recordMissed(missed, table, prayer)
    ELSE missed

\* One round of checkForMissedPrayers' forEach.
missedStep(missed, table, prayer) ==
    IF /\ jsGT(currentTime, getEndTime(table, prayer))
       /\ ~isCompleted(completedPrayers, getTodayKey, prayer)
       /\ ~isMissed(missed, getTodayKey, prayer)
    THEN recordMissed(missed, table, prayer)
    ELSE missed

RECURSIVE forEachMissed(_, _, _)
forEachMissed(missed, table, prayers) ==
    IF prayers = <<>> THEN missed
    ELSE forEachMissed(missedStep(missed, table, Head(prayers)), table, Tail(prayers))

\* checkForMissedPrayers: the missed record it leaves.
checkForMissedPrayers(missed, table) == forEachMissed(missed, table, todayPrayers)

\* cleanOldData's test of one bucket: date < thirtyDaysAgo. The bucket's date
\* is its day's midnight; thirtyDaysAgo keeps the current time of day, whose
\* seconds and milliseconds are `sub` (0, or 1 for any positive amount).
\* The date is an Invalid Date, below which and above which nothing lies,
\* when one of the three parts is missing or not a number.
isOld_MonthNotDecremented(dateKey, sub) ==
    LET parts         == split(dateKey, "-")
        part(i)       == IF i <= Len(parts) THEN parts[i] ELSE undefined
        valid         == \A i \in 1..3 : isNumeral(part(i))
        date          == newDate(Number(parts[3]), Number(parts[2]), Number(parts[1]))
        thirtyDaysAgo == newDate(getFullYear(day), getMonth(day), getDate(day) - 30)
    IN  /\ valid
        /\ \/ date * MinutesPerDay < thirtyDaysAgo * MinutesPerDay + now
           \/ date * MinutesPerDay = thirtyDaysAgo * MinutesPerDay + now /\ sub > 0

isOld(dateKey, sub) ==
    LET parts         == split(dateKey, "-")
        part(i)       == IF i <= Len(parts) THEN parts[i] ELSE undefined
        valid         == \A i \in 1..3 : isNumeral(part(i))
        date          == newDate(Number(parts[3]), Number(parts[2]) - 1, Number(parts[1]))
        thirtyDaysAgo == newDate(getFullYear(day), getMonth(day), getDate(day) - 30)
    IN  /\ valid
        /\ \/ date * MinutesPerDay < thirtyDaysAgo * MinutesPerDay + now
           \/ date * MinutesPerDay = thirtyDaysAgo * MinutesPerDay + now /\ sub > 0

cleanOldData_AbortOnInvalid(obj, sub) ==
    IF \E k \in DOMAIN obj :
           LET parts == split(k, "-")
           IN  Len(parts) < 3 \/ \E i \in 1..3 : ~isNumeral(parts[i])
    THEN obj
    ELSE [key \in {k \in DOMAIN obj : ~isOld(k, sub)} |-> obj[key]]

\* cleanOldData on one record: every old bucket is deleted.
cleanOldData(obj, sub) ==
    [key \in {k \in DOMAIN obj : ~isOld(k, sub)} |-> obj[key]]

\* One round of displayMissedPrayers' inner forEach, for every prayer of a
\* bucket: the prayer's count is created at 0 when absent, then incremented.
countBucket(missedCounts, prayers) ==
    [p \in (DOMAIN missedCounts) \cup prayers |->
        (IF p \in DOMAIN missedCounts THEN missedCounts[p] ELSE 0)
            + (IF p \in prayers THEN 1 ELSE 0)]

\* The outer forEach over the date keys still to visit.
RECURSIVE countBuckets(_, _, _)
countBuckets(missedCounts, missed, dateKeys) ==
    IF dateKeys = {} THEN missedCounts
    ELSE LET dateKey == CHOOSE k \in dateKeys : TRUE
         IN  countBuckets(countBucket(missedCounts, DOMAIN missed[dateKey]),
                          missed, dateKeys \ {dateKey})

missedCounts_TodayOnly(missed) ==
    countBuckets(emptyObject, missed, (DOMAIN missed) \cap {getTodayKey})

\* displayMissedPrayers: the counts by prayer name over all dates.
missedCounts(missed) == countBuckets(emptyObject, missed, DOMAIN missed)

RECURSIVE countCompleted(_, _)
countCompleted(completed, prayers) ==
    IF prayers = <<>> THEN 0
    ELSE (IF Head(prayers) \in completed[getTodayKey] THEN 1 ELSE 0)
             + countCompleted(completed, Tail(prayers))

updateStats_BucketSize(completed) ==
    LET n == IF getTodayKey \in DOMAIN completed
             THEN Cardinality(completed[getTodayKey]) ELSE 0
    IN  [completedCount |-> n, remainingCount |-> 5 - n]

\* updateStats: the two numbers it writes to the page.
updateStats(completed) ==
    LET n == IF getTodayKey \in DOMAIN completed
             THEN countCompleted(completed, todayPrayers) ELSE 0
    IN  [completedCount |-> n, remainingCount |-> 5 - n]

\* What window.memoryStorage holds of a record: the record itself when the
\* property refers to it, nothing (read as {} at the next load) otherwise.
storedRecord(ref, record) == IF ref = "ref" THEN record ELSE emptyObject

storeMissed_Never(storage, missed, after) == storage

\* checkForMissedPrayers assigns window.memoryStorage.missedPrayers in the
\* branch that adds an entry, and nowhere else.
storeMissed(storage, missed, after) ==
    IF after # missed THEN [storage EXCEPT !.missedPrayers = "ref"] ELSE storage

-----------------------------------------------------------------------------
(* The environment: the calendar, the clock, the timings API, the page *)

\* Thursday 15 January 2026: thirty days earlier lies in the previous year.
FirstDay == newDate(2026, 0, 15)

\* The page is opened on FirstDay or on the Friday after it, and is followed
\* for at most MaxDayOffset days past FirstDay.
MaxDayOffset == 1
\* The user toggles at most MaxToggles checkboxes.
MaxToggles == 2
\* The host page's stored buckets are at most MaxAge days old.
MaxAge == 31

StartDays == {FirstDay, FirstDay + 1}

\* The minutes at which the clock is read: 06:15, which is Fajr's end boundary
\* in the default table and past it in the API's, and 20:00, past every start
\* time; 00:00 is read after a rollover.
ClockPoints == {6 * 60 + 15, 20 * 60}

\* A response of the timings API with code 200.
ApiTables ==
    { tableOf(currentTimeOf(4 * 60 + 50), currentTimeOf(6 * 60 + 10),
              currentTimeOf(12 * 60), currentTimeOf(15 * 60 + 30),
              currentTimeOf(18 * 60 + 10), currentTimeOf(19 * 60 + 40)) }

\* What the host page may hold in window.memoryStorage when the script
\* loads: the ages, in days before today, of the buckets of both records.
StoredAges == {{}, {29, 30, MaxAge}}

storedMissedAt(keys) ==
    [key \in keys |->
        [p \in {"Fajr"} |-> [date |-> key, time |-> <<"0", "5", ":", "0", "0">>]]]

storedCompletedAt(keys) == [key \in keys |-> {"Asr", "Isha"}]

storedMissed(today, ages) == storedMissedAt({dayKeys[today - a] : a \in ages})

storedCompleted(today, ages) == storedCompletedAt({dayKeys[today - a] : a \in ages})

\* Lines 10-23: the records are the stored objects themselves when the host
\* page holds them ("ref": the property refers to the global record), fresh
\* ones otherwise.
Init ==
    /\ pc = "start"
    /\ day \in StartDays
    /\ now \in ClockPoints
    /\ fetchToday = day
    /\ prayerTimes = <<>>
    /\ \E ages \in StoredAges :
         /\ missedPrayers = storedMissed(day, ages)
         /\ completedPrayers = storedCompleted(day, ages)
         /\ \/ /\ ages = {}
               /\ memoryStorage = [completedPrayers |-> "undefined",
                                   missedPrayers |-> "undefined",
                                   lastReset |-> undefined]
            \/ /\ ages # {}
               /\ \E last \in {undefined, toDateString(day)} :
                    memoryStorage = [completedPrayers |-> "ref",
                                     missedPrayers |-> "ref",
                                     lastReset |-> last]
    /\ cards = <<>>
    /\ checked = emptyObject
    /\ toggles = 0
    /\ lastOp = [op |-> "load"]
    /\ calc = [op |-> "none"]

\* displayPrayerTimes: the cards of today's list, each checkbox checked when
\* the prayer is completed today.
displayedCards == todayPrayers

displayedChecks ==
    [p \in {todayPrayers[i] : i \in 1..Len(todayPrayers)} |->
        isCompleted(completedPrayers, getTodayKey, p)]

\* fetchPrayerTimes up to its first await: `today` is read.
FetchBegin ==
    /\ pc = "start"
    /\ pc' = "fetching"
    /\ fetchToday' = day
    /\ lastOp' = [op |-> "fetchBegin"]
    /\ UNCHANGED <<day, now, prayerTimes, completedPrayers, missedPrayers,
                   memoryStorage, cards, checked, toggles, calc>>

\* The response has code 200: the table is installed, the cards rendered,
\* updatePrayerStatus and checkForMissedPrayers run.
FetchOk ==
    /\ pc = "fetching"
    /\ \E timings \in ApiTables :
         LET table  == withJummah(timings, fetchToday)
             missed == checkForMissedPrayers(missedPrayers, table)
         IN  /\ prayerTimes' = table
             /\ missedPrayers' = missed
             /\ memoryStorage' = storeMissed(memoryStorage, missedPrayers, missed)
    /\ cards' = displayedCards
    /\ checked' = displayedChecks
    /\ pc' = "reset"
    /\ lastOp' = [op |-> "fetchOk"]
    /\ UNCHANGED <<day, now, fetchToday, completedPrayers, toggles, calc>>

\* The response has another code: the if at line 104 has no else.
FetchNot200 ==
    /\ pc = "fetching"
    /\ pc' = "reset"
    /\ lastOp' = [op |-> "fetchNot200"]
    /\ UNCHANGED <<day, now, fetchToday, prayerTimes, completedPrayers,
                   missedPrayers, memoryStorage, cards, checked, toggles, calc>>

\* The request or the reading of the response throws: useDefaultPrayerTimes.
FetchThrows ==
    /\ pc = "fetching"
    /\ prayerTimes' = withJummah(defaultTimes, day)
    /\ cards' = displayedCards
    /\ checked' = displayedChecks
    /\ pc' = "reset"
    /\ lastOp' = [op |-> "fetchThrows"]
    /\ UNCHANGED <<day, now, fetchToday, completedPrayers, missedPrayers,
                   memoryStorage, toggles, calc>>

\* checkDailyReset, and with it cleanOldData when lastReset is not today.
CheckDailyReset ==
    /\ pc = "reset"
    /\ pc' = "running"
    /\ \E sub \in {0, 1} :
         IF memoryStorage.lastReset # toDateString(day)
         THEN /\ missedPrayers' = cleanOldData(missedPrayers, sub)
              /\ completedPrayers' = cleanOldData(completedPrayers, sub)
              /\ memoryStorage' = [completedPrayers |-> "ref",
                                   missedPrayers |-> "ref",
                                   lastReset |-> toDateString(day)]
              /\ lastOp' = [op |-> "sweep", sub |-> sub,
                            missed |-> missedPrayers,
                            completed |-> completedPrayers]
         ELSE /\ UNCHANGED <<missedPrayers, completedPrayers, memoryStorage>>
              /\ lastOp' = [op |-> "noSweep"]
    /\ UNCHANGED <<day, now, fetchToday, prayerTimes, cards, checked, toggles, calc>>

\* updatePrayerStatus throws when the table lacks a time isInForbiddenTime
\* splits; the interval callback then ends before checkForMissedPrayers.
statusThrows ==
    \E name \in {"Fajr", "Dhuhr", "Maghrib"} : timeAt(prayerTimes, name) = undefined

\* The 60-second interval: updatePrayerStatus, then checkForMissedPrayers.
MinuteTick ==
    /\ pc = "running"
    /\ LET missed == IF statusThrows THEN missedPrayers
                     ELSE checkForMissedPrayers(missedPrayers, prayerTimes)
       IN  /\ missedPrayers' = missed
           /\ memoryStorage' = storeMissed(memoryStorage, missedPrayers, missed)
    /\ lastOp' = [op |-> IF statusThrows THEN "tickThrows" ELSE "tick"]
    /\ UNCHANGED <<pc, day, now, fetchToday, prayerTimes, completedPrayers,
                   cards, checked, toggles, calc>>

\* The pair's state in the two records.
pairState(completed, missed, key, prayer) ==
    IF isCompleted(completed, key, prayer)
    THEN (IF isMissed(missed, key, prayer) THEN "both" ELSE "completed")
    ELSE (IF isMissed(missed, key, prayer) THEN "missed" ELSE "pending")

\* The user clicks the checkbox of a rendered card: togglePrayer(prayer).
Toggle(prayer) ==
    /\ pc = "running"
    /\ prayer \in DOMAIN checked
    /\ toggles < MaxToggles
    /\ LET isChecked == ~checked[prayer]
       IN  /\ checked' = [checked EXCEPT ![prayer] = isChecked]
           /\ completedPrayers' = toggleCompleted(completedPrayers, prayer, isChecked)
           /\ missedPrayers' = toggleMissed(missedPrayers, prayerTimes, prayer, isChecked)
           /\ lastOp' = [op |-> "toggle", prayer |-> prayer, checked |-> isChecked,
                         before |-> pairState(completedPrayers, missedPrayers,
                                              getTodayKey, prayer)]
    /\ memoryStorage' = [memoryStorage EXCEPT !.completedPrayers = "ref",
                                              !.missedPrayers = "ref"]
    /\ toggles' = toggles + 1
    /\ UNCHANGED <<pc, day, now, fetchToday, prayerTimes, cards, calc>>

\* Time passes within the day.
ClockAdvance ==
    /\ pc \in {"fetching", "running"}
    /\ \E m \in ClockPoints : m > now /\ now' = m
    /\ lastOp' = [op |-> "clock"]
    /\ UNCHANGED <<pc, day, fetchToday, prayerTimes, completedPrayers,
                   missedPrayers, memoryStorage, cards, checked, toggles, calc>>

\* Midnight passes.
DayRollover ==
    /\ pc \in {"fetching", "running"}
    /\ day < FirstDay + MaxDayOffset
    /\ day' = day + 1
    /\ now' = 0
    /\ lastOp' = [op |-> "rollover"]
    /\ UNCHANGED <<pc, fetchToday, prayerTimes, completedPrayers,
                   missedPrayers, memoryStorage, cards, checked, toggles, calc>>

Next ==
    \/ FetchBegin
    \/ FetchOk
    \/ FetchNot200
    \/ FetchThrows
    \/ CheckDailyReset
    \/ MinuteTick
    \/ \E prayer \in {"Fajr", "Dhuhr", "Jummah", "Asr", "Maghrib", "Isha"} : Toggle(prayer)
    \/ ClockAdvance
    \/ DayRollover

Spec == Init /\ [][Next]_vars

-----------------------------------------------------------------------------
(* Startup on stored records that hold keys no date can be read from: the   *)
(* page is followed through the fetch and the sweep, without the user.      *)

\* Keys that are not `day-month-year` numerals: split('-') leaves the first
\* without month and year, and the second with the month "Dec".
InvalidKeys ==
    { <<"1", "5", "/", "1", "2", "/", "2", "0", "2", "5">>,
      <<"1", "5", "-", "D", "e", "c", "-", "2", "0", "2", "5">> }

InitSweep ==
    /\ pc = "start"
    /\ day \in StartDays
    /\ now \in ClockPoints
    /\ fetchToday = day
    /\ prayerTimes = <<>>
    /\ \E invalid \in SUBSET InvalidKeys :
         LET keys == {dayKeys[day - a] : a \in {29, 30, MaxAge}} \cup invalid
         IN  /\ missedPrayers = storedMissedAt(keys)
             /\ completedPrayers = storedCompletedAt(keys)
    /\ \E last \in {undefined, toDateString(day - 1)} :
         memoryStorage = [completedPrayers |-> "ref", missedPrayers |-> "ref",
                          lastReset |-> last]
    /\ cards = <<>>
    /\ checked = emptyObject
    /\ toggles = 0
    /\ lastOp = [op |-> "load"]
    /\ calc = [op |-> "none"]

NextSweep ==
    \/ FetchBegin
    \/ FetchOk
    \/ FetchNot200
    \/ FetchThrows
    \/ CheckDailyReset
    \/ MinuteTick
    \/ ClockAdvance
    \/ DayRollover

SpecSweep == InitSweep /\ [][NextSweep]_vars

-----------------------------------------------------------------------------
(* One day from its morning to its last minute, on a page that starts       *)
(* without stored records.                                                  *)

\* The minutes at which the clock is read: 06:15, 13:00 (between Dhuhr and
\* Asr), 20:00 and the last minute of the day.
DayClockPoints == {6 * 60 + 15, 13 * 60, 20 * 60, MinutesPerDay - 1}

InitDay ==
    /\ pc = "start"
    /\ day \in StartDays
    /\ now \in DayClockPoints
    /\ fetchToday = day
    /\ prayerTimes = <<>>
    /\ completedPrayers = emptyObject
    /\ missedPrayers = emptyObject
    /\ memoryStorage = [completedPrayers |-> "undefined",
                        missedPrayers |-> "undefined",
                        lastReset |-> undefined]
    /\ cards = <<>>
    /\ checked = emptyObject
    /\ toggles = 0
    /\ lastOp = [op |-> "load"]
    /\ calc = [op |-> "none"]

\* Time passes within the day.
ClockAdvanceDay ==
    /\ pc \in {"fetching", "running"}
    /\ \E m \in DayClockPoints : m > now /\ now' = m
    /\ lastOp' = [op |-> "clock"]
    /\ UNCHANGED <<pc, day, fetchToday, prayerTimes, completedPrayers,
                   missedPrayers, memoryStorage, cards, checked, toggles, calc>>

NextDay ==
    \/ FetchBegin
    \/ FetchOk
    \/ FetchNot200
    \/ FetchThrows
    \/ CheckDailyReset
    \/ MinuteTick
    \/ \E prayer \in {"Fajr", "Dhuhr", "Jummah", "Asr", "Maghrib", "Isha"} : Toggle(prayer)
    \/ ClockAdvanceDay

SpecDay == InitDay /\ [][NextDay]_vars

-----------------------------------------------------------------------------
(* Harness of the pure functions: the arguments are drawn in the initial    *)
(* state and one call is made; the tracker stays as the script leaves it    *)
(* before init() runs.                                                      *)

\* Every TimeStep-th minute of the day, and the last one, is an argument.
TimeStep == 10
\* The deltas reach MaxDeltaDays days in either direction.
MaxDeltaDays == 1

CalcTimes == {n \in 0..(MinutesPerDay - 1) : n % TimeStep = 0 \/ n = MinutesPerDay - 1}

CalcDeltas ==
    {0, 10, 15, 20, 90, 0 - 10, 0 - 15, 0 - 20, 0 - 90}
        \cup {k * MinutesPerDay + 20 : k \in 1..MaxDeltaDays}
        \cup {0 - (k * MinutesPerDay + 20) : k \in 1..MaxDeltaDays}

\* Tables with monotonically ordered times, as minutes of the day: the
\* default one, the API's, one whose Fajr + 90m precedes Sunrise, one just
\* after midnight and one just before it.
WindowTables ==
    { <<300, 375, 735, 945, 1080, 1170>>,
      <<290, 370, 720, 930, 1090, 1180>>,
      <<240, 360, 725, 940, 1085, 1175>>,
      <<0, 2, 5, 8, 12, 20>>,
      <<1360, 1380, 1390, 1400, 1410, 1420>> }

tableOfMinutes(m) ==
    tableOf(currentTimeOf(m[1]), currentTimeOf(m[2]), currentTimeOf(m[3]),
            currentTimeOf(m[4]), currentTimeOf(m[5]), currentTimeOf(m[6]))

trackerVars == <<pc, day, now, fetchToday, prayerTimes, completedPrayers,
                 missedPrayers, memoryStorage, cards, checked, toggles, lastOp>>

IdleOn(today) ==
    /\ pc = "start"
    /\ day = today
    /\ now = 0
    /\ fetchToday = today
    /\ prayerTimes = <<>>
    /\ completedPrayers = emptyObject
    /\ missedPrayers = emptyObject
    /\ memoryStorage = [completedPrayers |-> "undefined",
                        missedPrayers |-> "undefined",
                        lastReset |-> undefined]
    /\ cards = <<>>
    /\ checked = emptyObject
    /\ toggles = 0
    /\ lastOp = [op |-> "load"]

Idle == IdleOn(FirstDay)

InitTime ==
    /\ Idle
    /\ calc \in [op : {"args"}, t : CalcTimes, d : CalcDeltas, out : {undefined}]

CallAddMinutes ==
    /\ calc.op = "args"
    /\ calc' = [calc EXCEPT !.op = "addMinutes",
                            !.out = addMinutes(currentTimeOf(calc.t), calc.d)]
    /\ UNCHANGED trackerVars

CallSubtractMinutes ==
    /\ calc.op = "args"
    /\ calc' = [calc EXCEPT !.op = "subtractMinutes",
                            !.out = subtractMinutes(currentTimeOf(calc.t), calc.d)]
    /\ UNCHANGED trackerVars

CallRoundTrip ==
    /\ calc.op = "args"
    /\ calc' = [calc EXCEPT !.op = "roundTrip",
                            !.out = subtractMinutes(
                                        addMinutes(currentTimeOf(calc.t), calc.d), calc.d)]
    /\ UNCHANGED trackerVars

NextTime == CallAddMinutes \/ CallSubtractMinutes \/ CallRoundTrip

SpecTime == InitTime /\ [][NextTime]_vars

\* The table a page opened on `today` holds for these six minutes.
tableOn(m, today) == withJummah(tableOfMinutes(m), today)

InitWindow ==
    /\ \E today \in StartDays : IdleOn(today)
    /\ calc \in [op : {"args"}, table : WindowTables, t : 0..(MinutesPerDay - 1),
                 out : {undefined}]

CallIsInForbiddenTime ==
    /\ calc.op = "args"
    /\ calc' = [calc EXCEPT !.op = "isInForbiddenTime",
                            !.out = isInForbiddenTime(tableOfMinutes(calc.table),
                                                      currentTimeOf(calc.t))]
    /\ UNCHANGED trackerVars

CallUpdateNextPrayer ==
    /\ calc.op = "args"
    /\ calc' = [calc EXCEPT !.op = "updateNextPrayer",
                            !.out = updateNextPrayer(tableOn(calc.table, day),
                                                     getDay(day) = 5,
                                                     currentTimeOf(calc.t))]
    /\ UNCHANGED trackerVars

\* The cards are those displayPrayerTimes renders for today's list.
CallUpdatePrayerStatus ==
    /\ calc.op = "args"
    /\ calc' = [calc EXCEPT !.op = "updatePrayerStatus",
                            !.out = updatePrayerStatus(tableOn(calc.table, day),
                                                       getDay(day) = 5,
                                                       currentTimeOf(calc.t),
                                                       todayPrayers)]
    /\ UNCHANGED trackerVars

NextWindow == CallIsInForbiddenTime \/ CallUpdateNextPrayer \/ CallUpdatePrayerStatus

SpecWindow == InitWindow /\ [][NextWindow]_vars

-----------------------------------------------------------------------------
(* Properties *)

\* The end boundary of a prayer's window as the specification states it:
\* Sunrise for Fajr, "23:59" for Isha, otherwise the start of the next prayer
\* in canonical order, Jummah standing in Dhuhr's place.
endTimeOf(table, prayer) ==
    CASE prayer = "Fajr"               -> timeAt(table, "Sunrise")
      [] prayer \in {"Dhuhr", "Jummah"} -> timeAt(table, "Asr")
      [] prayer = "Asr"                -> timeAt(table, "Maghrib")
      [] prayer = "Maghrib"            -> timeAt(table, "Isha")
      [] prayer = "Isha"               -> <<"2", "3", ":", "5", "9">>

TimingNames == {"Fajr", "Sunrise", "Dhuhr", "Asr", "Maghrib", "Isha"}

\* C1: after an unmark of a prayer that was completed today, the pair is not
\* completed, and it is missed exactly when now > endTimeOf(prayer); otherwise
\* it is pending.
C1_UnmarkMissedIffWindowClosed ==
    (lastOp.op = "toggle" /\ ~lastOp.checked /\ lastOp.before = "completed") =>
        /\ ~isCompleted(completedPrayers, getTodayKey, lastOp.prayer)
        /\ isMissed(missedPrayers, getTodayKey, lastOp.prayer)
               <=> jsGT(currentTime, endTimeOf(prayerTimes, lastOp.prayer))

\* C2: no (DayKey, prayer) pair is in the completion record and in the missed
\* record at once, and right after a mark the marked pair is completed and
\* has no missed record.
C2_ExactlyOneState ==
    /\ \A key \in (DOMAIN completedPrayers) \cap (DOMAIN missedPrayers) :
           completedPrayers[key] \cap (DOMAIN missedPrayers[key]) = {}
    /\ (lastOp.op = "toggle" /\ lastOp.checked) =>
           pairState(completedPrayers, missedPrayers, getTodayKey, lastOp.prayer)
               = "completed"

\* A pair that was missed has just been marked complete.
C2_Witness ==
    lastOp.op = "toggle" /\ lastOp.checked /\ lastOp.before = "missed"

\* C3: whatever table is installed, getEndTime("Isha") is "23:59".
C3_IshaEndsAtSentinel ==
    prayerTimes # <<>> => getEndTime(prayerTimes, "Isha") = <<"2", "3", ":", "5", "9">>

\* C4: right after the minute tick's checkForMissedPrayers, every prayer of
\* today's list whose end boundary has passed and that is not completed today
\* has a missed record for today, and running checkForMissedPrayers again
\* changes nothing in the missed record.
C4_TickRecordsMissed ==
    lastOp.op = "tick" =>
        /\ \A i \in 1..Len(todayPrayers) :
               ( /\ jsGT(currentTime, endTimeOf(prayerTimes, todayPrayers[i]))
                 /\ ~isCompleted(completedPrayers, getTodayKey, todayPrayers[i]) )
                   => isMissed(missedPrayers, getTodayKey, todayPrayers[i])
        /\ checkForMissedPrayers(missedPrayers, prayerTimes) = missedPrayers

\* A tick has left two prayers of today's list missed and one completed
\* prayer, whose end boundary has passed too, not missed.
C4_Witness ==
    /\ lastOp.op = "tick"
    /\ isMissed(missedPrayers, getTodayKey, "Fajr")
    /\ isMissed(missedPrayers, getTodayKey, "Asr")
    /\ isCompleted(completedPrayers, getTodayKey, "Maghrib")
    /\ jsGT(currentTime, endTimeOf(prayerTimes, "Maghrib"))

\* C5: in every installed table getEndTime gives Sunrise for Fajr, Asr's start
\* for Dhuhr and for Jummah, Maghrib's for Asr and Isha's for Maghrib.
C5_EndTimeIsNextStart ==
    prayerTimes # <<>> =>
        /\ getEndTime(prayerTimes, "Fajr") = timeAt(prayerTimes, "Sunrise")
        /\ getEndTime(prayerTimes, "Dhuhr") = timeAt(prayerTimes, "Asr")
        /\ getEndTime(prayerTimes, "Jummah") = timeAt(prayerTimes, "Asr")
        /\ getEndTime(prayerTimes, "Asr") = timeAt(prayerTimes, "Maghrib")
        /\ getEndTime(prayerTimes, "Maghrib") = timeAt(prayerTimes, "Isha")
        /\ \A name \in TimingNames : timeAt(prayerTimes, name) # undefined

\* The Friday table, which holds a Jummah entry, is installed.
C5_Witness ==
    prayerTimes # <<>> /\ timeAt(prayerTimes, "Jummah") # undefined

\* C6 as stated: forbidden exactly in [Fajr+90m, Sunrise), [Dhuhr-10m, Dhuhr)
\* and [Maghrib-15m, Maghrib], the first two without their right endpoint.
C6_ForbiddenHalfOpen ==
    calc.op = "isInForbiddenTime" =>
        calc.out =
            ( \/ (calc.table[1] + 90) % MinutesPerDay <= calc.t /\ calc.t < calc.table[2]
              \/ calc.table[3] - 10 <= calc.t /\ calc.t < calc.table[3]
              \/ calc.table[5] - 15 <= calc.t /\ calc.t <= calc.table[5] )

\* C6 as amended: forbidden exactly in the closed intervals
\* [Fajr+90m, Sunrise], [Dhuhr-10m, Dhuhr] and [Maghrib-15m, Maghrib], every
\* endpoint included; Fajr+90m is taken modulo 24 hours, and a lower bound
\* Dhuhr-10m or Maghrib-15m before 00:00 lies below every minute of the day.
C6_ForbiddenClosed ==
    calc.op = "isInForbiddenTime" =>
        calc.out =
            ( \/ (calc.table[1] + 90) % MinutesPerDay <= calc.t /\ calc.t <= calc.table[2]
              \/ calc.table[3] - 10 <= calc.t /\ calc.t <= calc.table[3]
              \/ calc.table[5] - 15 <= calc.t /\ calc.t <= calc.table[5] )

\* The current time is Sunrise, at the right end of a non-empty first
\* interval, and it is forbidden.
C6_Witness ==
    /\ calc.op = "isInForbiddenTime"
    /\ calc.t = calc.table[2]
    /\ calc.table[1] + 90 < calc.table[2]
    /\ calc.out = TRUE

\* The number of days a bucket's day lies before today.
daysBefore(key) ==
    CHOOSE a \in 0..(MaxAge + MaxDayOffset + 2) : dayKeys[day - a] = key

\* C7: the sweep removes from both records every bucket dated 31 or more days
\* before today and keeps, with its contents, every bucket dated 29 or fewer
\* days before today.
C7_SweepRetention ==
    lastOp.op = "sweep" =>
        /\ \A key \in DOMAIN lastOp.missed :
               /\ daysBefore(key) >= 31 => key \notin DOMAIN missedPrayers
               /\ daysBefore(key) <= 29 =>
                      /\ key \in DOMAIN missedPrayers
                      /\ missedPrayers[key] = lastOp.missed[key]
        /\ \A key \in DOMAIN lastOp.completed :
               /\ daysBefore(key) >= 31 => key \notin DOMAIN completedPrayers
               /\ daysBefore(key) <= 29 =>
                      /\ key \in DOMAIN completedPrayers
                      /\ completedPrayers[key] = lastOp.completed[key]

\* The sweep has run on records that held a bucket 31 or more days old and
\* one 29 days old.
C7_Witness ==
    /\ lastOp.op = "sweep"
    /\ \E key \in DOMAIN lastOp.missed : daysBefore(key) >= 31
    /\ \E key \in DOMAIN lastOp.completed : daysBefore(key) >= 31
    /\ \E key \in DOMAIN lastOp.missed : daysBefore(key) = 29
    /\ \E key \in DOMAIN lastOp.completed : daysBefore(key) = 29

\* C8: once fetchPrayerTimes has finished and the tick runs, the table holds
\* Fajr, Sunrise, Dhuhr, Asr, Maghrib and Isha.
C8_TableInstalledWhenRunning ==
    pc = "running" => \A name \in TimingNames : timeAt(prayerTimes, name) # undefined

\* C9: addMinutes(t, d) is the "HH:MM" string of (minutesOfDay(t) + d) mod
\* 1440, and subtractMinutes(t, d) that of (minutesOfDay(t) - d) mod 1440.
C9_AddMinutesWraps ==
    /\ calc.op = "addMinutes" =>
           calc.out = currentTimeOf((calc.t + calc.d) % MinutesPerDay)
    /\ calc.op = "subtractMinutes" =>
           calc.out = currentTimeOf((calc.t - calc.d) % MinutesPerDay)

\* C10: subtractMinutes(addMinutes(t, d), d) = t.
C10_SubtractInvertsAdd ==
    calc.op = "roundTrip" => calc.out = currentTimeOf(calc.t)

\* The minutes at which the prayers of today's list start, in list order:
\* Dhuhr's minute stands in the second slot on every day.
listStarts(m) == <<m[1], m[3], m[4], m[5], m[6]>>

\* The countdown of n minutes as the page words it.
countdownOf(n) ==
    IF n >= 60
    THEN String(n \div 60) \o <<"h", " ">> \o String(n % 60) \o <<"m">>
    ELSE String(n) \o <<"m">>

\* C11: updateNextPrayer selects the first prayer of today's list (Jummah in
\* Dhuhr's slot on a Friday, with Dhuhr's time) that starts strictly after
\* now, with the countdown to its start; when none does, it selects Fajr as
\* tomorrow's occurrence, without a countdown.
C11_NextPrayerFirstAfterNow ==
    calc.op = "updateNextPrayer" =>
        LET starts == listStarts(calc.table)
            later  == {i \in 1..5 : starts[i] > calc.t}
        IN  IF later = {}
            THEN /\ calc.out.nextPrayer = "Fajr"
                 /\ calc.out.tomorrow
                 /\ calc.out.timeDiff = undefined
            ELSE LET i == CHOOSE j \in later : \A k \in later : j <= k
                 IN  /\ calc.out.nextPrayer = prayersOf(getDay(day) = 5)[i]
                     /\ ~calc.out.tomorrow
                     /\ calc.out.timeDiff = countdownOf(starts[i] - calc.t)

\* On a Friday, at the very minute Fajr starts, the next prayer is Jummah.
C11_Witness ==
    /\ calc.op = "updateNextPrayer"
    /\ getDay(day) = 5
    /\ calc.t = calc.table[1]
    /\ calc.out.nextPrayer = "Jummah"
    /\ ~calc.out.tomorrow

\* After the last start of the day the next prayer is tomorrow's Fajr.
C11_WitnessTomorrow ==
    /\ calc.op = "updateNextPrayer"
    /\ calc.t > calc.table[6]
    /\ calc.out.tomorrow

AllPrayers == {"Fajr", "Dhuhr", "Jummah", "Asr", "Maghrib", "Isha"}

\* C12: the counts displayMissedPrayers computes give, for each prayer name,
\* the number of day buckets of the missed record that hold that prayer, over
\* all days; two days that each missed Fajr and nothing else give {Fajr: 2}.
C12_MissedCountsOverAllDays ==
    LET counts == missedCounts(missedPrayers)
        buckets(p) == {key \in DOMAIN missedPrayers : p \in DOMAIN missedPrayers[key]}
    IN  /\ DOMAIN counts \subseteq AllPrayers
        /\ \A p \in AllPrayers :
               IF buckets(p) = {} THEN p \notin DOMAIN counts
               ELSE p \in DOMAIN counts /\ counts[p] = Cardinality(buckets(p))
        /\ (/\ Cardinality(DOMAIN missedPrayers) = 2
            /\ \A key \in DOMAIN missedPrayers : DOMAIN missedPrayers[key] = {"Fajr"})
               => counts = [p \in {"Fajr"} |-> 2]

\* On the second day the tick has recorded Fajr as missed, as on the first
\* day, and nothing else is missed: the counts are {Fajr: 2}.
C12_Witness ==
    /\ lastOp.op = "tick"
    /\ DOMAIN missedPrayers = {dayKeys[day - 1], dayKeys[day]}
    /\ \A key \in DOMAIN missedPrayers : DOMAIN missedPrayers[key] = {"Fajr"}
    /\ missedCounts(missedPrayers) = [p \in {"Fajr"} |-> 2]

\* C13: updateStats reports as completed the number of prayers of today's
\* list that are marked complete today, and as remaining 5 minus that number;
\* both lie in 0..5 on every day, Fridays included.
C13_StatsOutOfFive ==
    LET stats == updateStats(completedPrayers)
        done  == {p \in {todayPrayers[i] : i \in 1..Len(todayPrayers)} :
                      isCompleted(completedPrayers, getTodayKey, p)}
    IN  /\ stats.completedCount = Cardinality(done)
        /\ stats.remainingCount = 5 - stats.completedCount
        /\ stats.completedCount \in 0..5
        /\ stats.remainingCount \in 0..5

\* On a Friday the user has marked Jummah and one more prayer: 2 completed,
\* 3 remaining.
C13_Witness ==
    /\ lastOp.op = "toggle"
    /\ getDay(day) = 5
    /\ isCompleted(completedPrayers, getTodayKey, "Jummah")
    /\ updateStats(completedPrayers) = [completedCount |-> 2, remainingCount |-> 3]

\* C14: neither record holds an empty day bucket.
C14_NoEmptyBucket ==
    /\ \A key \in DOMAIN completedPrayers : completedPrayers[key] # {}
    /\ \A key \in DOMAIN missedPrayers : DOMAIN missedPrayers[key] # {}

\* An unmark has removed the last completed entry of today, and today's
\* bucket with it.
C14_Witness ==
    /\ lastOp.op = "toggle"
    /\ ~lastOp.checked
    /\ lastOp.before = "completed"
    /\ getTodayKey \notin DOMAIN completedPrayers

\* C15: after a toggle, a check for missed prayers and the sweep, what
\* window.memoryStorage holds of each record equals the record in memory, an
\* absent stored record counting as empty.
C15_StoreEqualsMemory ==
    lastOp.op \in {"toggle", "tick", "fetchOk", "sweep"} =>
        /\ storedRecord(memoryStorage.completedPrayers, completedPrayers)
               = completedPrayers
        /\ storedRecord(memoryStorage.missedPrayers, missedPrayers) = missedPrayers

\* The check that ends the fetch has recorded a missed prayer on a page that
\* started without stored records: the missed record is stored, the
\* completion record, still empty, is not.
C15_Witness ==
    /\ lastOp.op = "fetchOk"
    /\ missedPrayers # emptyObject
    /\ memoryStorage.missedPrayers = "ref"
    /\ memoryStorage.completedPrayers = "undefined"

\* C16: the sweep leaves in place every bucket whose key no date can be read
\* from, and still removes from both records every bucket 31 or more days
\* old and keeps every bucket at most 29 days old.
C16_SweepSkipsInvalidKeys ==
    lastOp.op = "sweep" =>
        /\ \A key \in DOMAIN lastOp.missed :
               IF key \in InvalidKeys \/ daysBefore(key) <= 29
               THEN key \in DOMAIN missedPrayers
                        /\ missedPrayers[key] = lastOp.missed[key]
               ELSE daysBefore(key) >= 31 => key \notin DOMAIN missedPrayers
        /\ \A key \in DOMAIN lastOp.completed :
               IF key \in InvalidKeys \/ daysBefore(key) <= 29
               THEN key \in DOMAIN completedPrayers
                        /\ completedPrayers[key] = lastOp.completed[key]
               ELSE daysBefore(key) >= 31 => key \notin DOMAIN completedPrayers

\* The sweep has run on records that held both invalid keys and a bucket 31
\* or more days old: the invalid keys are still there, the old bucket is not.
C16_Witness ==
    /\ lastOp.op = "sweep"
    /\ InvalidKeys \subseteq DOMAIN lastOp.missed
    /\ InvalidKeys \subseteq DOMAIN missedPrayers
    /\ InvalidKeys \subseteq DOMAIN completedPrayers
    /\ \E key \in DOMAIN lastOp.missed \ InvalidKeys :
           daysBefore(key) >= 31 /\ key \notin DOMAIN missedPrayers
    /\ \E key \in DOMAIN lastOp.completed \ InvalidKeys :
           daysBefore(key) >= 31 /\ key \notin DOMAIN completedPrayers

\* C17: neither the minute tick nor an unmark creates a missed record for
\* (today, prayer) at a time that is not after the prayer's scheduled start,
\* on any day of the week and for any prayer of today's list.
C17_NoMissedBeforeStart ==
    [][\A p \in AllPrayers :
          (/\ lastOp'.op \in {"tick", "toggle"}
           /\ ~isMissed(missedPrayers, dayKeys[day], p)
           /\ isMissed(missedPrayers', dayKeys[day'], p))
              => jsGT(currentTimeOf(now'), startTime(prayerTimes', p))]_vars

\* C18: once the tick has run in the last minute of the day, every prayer of
\* today's list that is not marked complete has a missed record for today.
C18_MissedByEndOfDay ==
    (lastOp.op = "tick" /\ now = MinutesPerDay - 1) =>
        \A i \in 1..Len(todayPrayers) :
            \/ isCompleted(completedPrayers, getTodayKey, todayPrayers[i])
            \/ isMissed(missedPrayers, getTodayKey, todayPrayers[i])

\* C19: for every ordered table and every minute of the day,
\* updatePrayerStatus gives the class active to at most one card, also in
\* the minute at which a prayer starts and the previous one ends.
C19_AtMostOneActive ==
    calc.op = "updatePrayerStatus" => Cardinality(calc.out.active) <= 1

\* The entry of (key, p) in the two records: whether it is completed, and its
\* missed entry when there is one.
pairOf(completed, missed, key, p) ==
    <<isCompleted(completed, key, p),
      IF isMissed(missed, key, p) THEN missed[key][p] ELSE undefined>>

\* C20: the completion record changes only in a toggle and in the sweep; the
\* tick leaves it unchanged and changes the missed record only in today's
\* bucket; a toggle of one prayer leaves every other (DayKey, prayer) pair of
\* both records as it was, the buckets of earlier days included.
C20_Frame ==
    [][LET keys == (DOMAIN completedPrayers) \cup (DOMAIN completedPrayers')
                       \cup (DOMAIN missedPrayers) \cup (DOMAIN missedPrayers')
       IN  /\ completedPrayers' # completedPrayers
                  => lastOp'.op \in {"toggle", "sweep"}
           /\ lastOp'.op \in {"tick", "tickThrows"} =>
                  /\ completedPrayers' = completedPrayers
                  /\ \A key \in keys \ {dayKeys[day]}, p \in AllPrayers :
                         pairOf(completedPrayers', missedPrayers', key, p)
                             = pairOf(completedPrayers, missedPrayers, key, p)
           /\ lastOp'.op = "toggle" =>
                  \A key \in keys, p \in AllPrayers :
                      (key # dayKeys[day] \/ p # lastOp'.prayer) =>
                          pairOf(completedPrayers', missedPrayers', key, p)
                              = pairOf(completedPrayers, missedPrayers, key, p)
      ]_vars

\* After a rollover, with buckets of an earlier day in both records, a
\* prayer that was recorded as missed today has been marked complete.
C20_Witness ==
    /\ lastOp.op = "toggle"
    /\ lastOp.checked
    /\ lastOp.before = "missed"
    /\ day > FirstDay
    /\ \E key \in DOMAIN missedPrayers : key # getTodayKey
    /\ \E key \in DOMAIN completedPrayers : key # getTodayKey
    /\ getTodayKey \in DOMAIN missedPrayers

====
